---- MODULE Spec2Model ----
(***************************************************************************)
(* Model of EnsimeClient (src/ensimesublime/client.py): the websocket      *)
(* session manager, its receiver loop (queue_poll), the call-id counter,   *)
(* the response registry (self.responses) and the connection retry budget. *)
(*                                                                         *)
(* Every thread is a stack of frames; a frame is one activation of a       *)
(* method of the client, `pc` is its position in the method's code.        *)
(* Time is a discrete clock.  One tick is half of get_response's polling   *)
(* sleep; a sleep lasts exactly its duration and the computation between   *)
(* two clock readings takes no time (except the busy loop of get_response  *)
(* on a nil value, which reads no clock at all).                           *)
(***************************************************************************)
EXTENDS Integers, Sequences, FiniteSets, TLC

VARIABLES
    ws,                     \* self.ws: "None" or "conn"
    ensime,                 \* self.ensime: "None", "starting", "ready", "stopped"
    ensime_server,          \* self.ensime_server: "None" or "uri"
    call_id,                \* self.call_id
    responses,              \* self.responses: call id -> envelope
    number_try_connection,  \* self.number_try_connection
    running,                \* self.running
    connected,              \* self.connected
    poller,                 \* position of the queue-poller thread
    stack,                  \* thread -> sequence of frames, top frame first
    ret,                    \* thread -> value returned by the last finished call
    exc,                    \* thread -> exception that ended its last top-level call, or "None"
    ops,                    \* number of calls the foreground threads have made so far
    clock,                  \* time.time()
    warnings,               \* cause -> number of sublime.error_message dialogs shown
    handled,                \* call id -> number of handle_incoming_response(call_id, payload) calls
    sent,                   \* set of the messages put on the websocket
    opened,                 \* number of websocket.create_connection calls that succeeded
    stops,                  \* number of self.ensime.stop() calls
    faults,                 \* number of transport errors raised so far
    recvs,                  \* number of messages received so far
    calls,                  \* number of send_request calls started so far
    overlapped,             \* some send_request started while another one was running
    issued,                 \* call id -> number of send_request calls that returned it
    torn                    \* a call of teardown has returned

vars == <<ws, ensime, ensime_server, call_id, responses, number_try_connection,
          running, connected, poller, stack, ret, exc, ops, clock, warnings, handled,
          sent, opened, stops, faults, recvs, calls,
          overlapped, issued, torn>>

----------------------------------------------------------------------------
\* Bounds of the model.

\* calls the foreground threads make in a session, all threads together
MaxOps == 2
\* call ids the callers await and the server answers
MaxId == 2
\* messages the receiver loop receives in a session
MaxRecv == 2
\* transport errors (connect, send, receive) in a session
MaxFaults == 2
\* largest timeout a caller passes to get_response, in ticks
MaxTimeout == 3
\* how far the clock runs while a get_response busy-loops on a nil value
MaxSpin == 2
\* the value at which the counters of observed events stop counting
MaxCount == 3

\* the foreground threads calling into the client
Callers == {"f1", "f2"}
\* the threads setup() starts to run connect_when_ready
Background == {"bg"}
Threads == Callers \cup Background

----------------------------------------------------------------------------
\* Program constants, in ticks and iterations.

\* time.sleep(0.25) of get_response: two ticks
PollInterval == 2
\* get_response(call_id, timeout=30) of the handshake, scaled to the model's clock
HandshakeTimeout == 2
\* settings "timeout_connection" (default 20), the iterations connect_when_ready waits
ConnectionTimeout == 1
\* self.number_try_connection = 1
InitialTries == 1
\* self.call_id = 1
FirstCallId == 1

----------------------------------------------------------------------------
\* Values.

NoId == 0                   \* _json.get("callId") is None

\* An incoming envelope: callId (NoId when absent) and payload, which is
\* "absent" (no "payload" key), "empty" (a falsy payload) or "data".
Envelope(cid, payload) == [callId |-> cid, payload |-> payload]
Payloads == {"absent", "empty", "data"}
Envelopes == {Envelope(c, p) : c \in 0..MaxId, p \in Payloads}

\* the value get_response treats as "not answered yet": None, an empty value or "nil"
Nil == [callId |-> NoId, payload |-> "nil"]

\* `result and result != "nil"` of get_response
IsResult(v) == v.payload # "nil"

Frame(proc, pc) ==
    [proc |-> proc, pc |-> pc, id |-> 0, tmo |-> 0, sw |-> TRUE,
     start |-> 0, now |-> 0, wait |-> FALSE, wake |-> 0,
     tmp |-> 0, ld |-> 0, seen |-> 0, nilled |-> FALSE, at |-> 0, k |-> 0,
     h |-> 0, got |-> "none"]

\* the value a call returns: a truth value or a number
RetBool(b) == [bool |-> b, int |-> 0]
RetInt(n) == [bool |-> FALSE, int |-> n]

Top(t) == Head(stack[t])
Idle(t) == stack[t] = <<>>
In(t, proc, pc) == ~Idle(t) /\ Top(t).proc = proc /\ Top(t).pc = pc

\* replace the top frame / push a frame over a changed top frame / pop
SetTop(t, f) == [stack EXCEPT ![t] = <<f>> \o Tail(stack[t])]
Push(t, f, g) == [stack EXCEPT ![t] = <<g, f>> \o Tail(stack[t])]
Pop(t) == [stack EXCEPT ![t] = Tail(stack[t])]

\* one more event k in the counter c (a function from events to their number)
Bump(c, k) ==
    [j \in (DOMAIN c) \cup {k} |->
        IF j \notin DOMAIN c THEN 1
        ELSE IF j = k /\ c[j] < MaxCount THEN c[j] + 1 ELSE c[j]]
\* the number of events k counted in c
Count(c, k) == IF k \in DOMAIN c THEN c[k] ELSE 0


----------------------------------------------------------------------------
\* __init__ (lines 39-63): the state of a freshly constructed client, its
\* queue-poller thread started.
Init ==
    /\ ws = "None"
    /\ ensime = "None"
    /\ ensime_server = "None"
    /\ call_id = FirstCallId
    /\ responses = <<>>
    /\ number_try_connection = InitialTries
    /\ running = TRUE
    /\ connected = FALSE
    /\ poller = "loop"
    /\ stack = [t \in Threads |-> <<>>]
    /\ ret = [t \in Threads |-> RetInt(0)]
    /\ exc = [t \in Threads |-> "None"]
    /\ ops = 0
    /\ clock = 0
    /\ warnings = <<>>
    /\ handled = <<>>
    /\ sent = {}
    /\ opened = 0
    /\ stops = 0
    /\ faults = 0
    /\ recvs = 0
    /\ calls = 0
    /\ overlapped = FALSE
    /\ issued = <<>>
    /\ torn = FALSE

\* line 242 emptying the registry instead of deleting one entry
DelAll(reg, k) == <<>>

\* the registry without the entry of key k: del self.responses[k]
Del(reg, k) == [j \in (DOMAIN reg) \ {k} |-> reg[j]]
\* self.responses[k] = v
Put(reg, k, v) == [j \in (DOMAIN reg) \cup {k} |-> IF j = k THEN v ELSE reg[j]]

\* An exception nothing catches unwinds the whole stack of its thread: the
\* only handlers of the client are the `with catch(WebSocketException, h)`
\* blocks, and no call is made from inside the body of one.
Raise(t, e) ==
    /\ stack' = [stack EXCEPT ![t] = <<>>]
    /\ exc' = [exc EXCEPT ![t] = e]
    /\ UNCHANGED ret

\* shutdown_server without the assignment of line 196
ShutdownEffectKeepsFlag ==
    /\ connected' = connected
    /\ stops' = IF ensime # "None" /\ stops < MaxCount THEN stops + 1 ELSE stops
    /\ ensime' = IF ensime # "None" THEN "stopped" ELSE ensime

\* shutdown_server (lines 191-199): the assignments of one call
ShutdownEffect ==
    /\ connected' = FALSE
    /\ stops' = IF ensime # "None" /\ stops < MaxCount THEN stops + 1 ELSE stops
    /\ ensime' = IF ensime # "None" THEN "stopped" ELSE ensime

\* _display_ws_warning without the call of line 141
DisplayNoWarning(cause) == warnings' = warnings

\* _display_ws_warning (lines 138-141)
DisplayWsWarning(cause) == warnings' = Bump(warnings, cause)

----------------------------------------------------------------------------
\* get_response (lines 220-249)

\* lines 225-226: the frame of get_response(call_id, timeout, should_wait)
GetFrame(id, tmo, sw) ==
    [Frame("get_response", "loop") EXCEPT
        !.id = id, !.tmo = tmo, !.sw = sw, !.start = clock, !.now = clock,
        !.wait = sw /\ id \notin DOMAIN responses,
        !.seen = IF id \in DOMAIN responses /\ IsResult(responses[id]) THEN 1 ELSE 0,
        !.got = IF id \in DOMAIN responses /\ IsResult(responses[id])
                THEN responses[id].payload ELSE "none",
        !.h = Count(handled, id),
        !.at = clock]

\* line 227: the condition of the while loop
LoopCond(f) == f.wait /\ (f.now - f.start) < f.tmo

\* the test of line 246 with > for >=
TimedOutStrict(f) == (f.now - f.start) > f.tmo

\* line 246: the test that decides the returned value
TimedOut(f) == (f.now - f.start) >= f.tmo

\* time.time() has no fixed origin: when the last thread holding a clock
\* reading leaves get_response, the model moves the origin to that instant
ClockAfter(t) ==
    IF \E u \in Threads \ {t} : ~Idle(u) /\ Top(u).proc = "get_response"
    THEN clock ELSE 0

\* lines 228-230: no entry yet, go to sleep for one polling interval
GetResponseSleep(t) ==
    /\ In(t, "get_response", "loop")
    /\ LoopCond(Top(t))
    /\ Top(t).id \notin DOMAIN responses
    /\ stack' = SetTop(t, [Top(t) EXCEPT !.pc = "sleep", !.wake = clock + PollInterval])
    /\ UNCHANGED <<ws, ensime, ensime_server, call_id, responses, number_try_connection,
                   running, connected, poller, ret, exc, ops, clock, warnings, handled,
                   sent, opened, stops, faults, recvs, calls,
                   overlapped, issued, torn>>

\* line 230: the sleep is over, read the clock
GetResponseWake(t) ==
    /\ In(t, "get_response", "sleep")
    /\ clock >= Top(t).wake
    /\ stack' = SetTop(t, [Top(t) EXCEPT !.pc = "loop", !.now = clock])
    /\ UNCHANGED <<ws, ensime, ensime_server, call_id, responses, number_try_connection,
                   running, connected, poller, ret, exc, ops, clock, warnings, handled,
                   sent, opened, stops, faults, recvs, calls,
                   overlapped, issued, torn>>

\* lines 232-242: an entry that is a result: restart the timeout, re-read
\* the call id from the envelope, dispatch the payload, delete the entry.
\* result["payload"] of an envelope without payload raises KeyError.
GetResponseTake(t) ==
    /\ In(t, "get_response", "loop")
    /\ LoopCond(Top(t))
    /\ Top(t).id \in DOMAIN responses
    /\ IsResult(responses[Top(t).id])
    /\ LET f == Top(t)
           result == responses[f.id]
           cid == result.callId
       IN  IF result.payload = "absent" \/ cid \notin DOMAIN responses
           THEN /\ Raise(t, "KeyError")
                /\ clock' = ClockAfter(t)
                /\ UNCHANGED <<responses, handled>>
           ELSE /\ handled' = IF result.payload = "data"
                                 THEN Bump(handled, cid)
                                 ELSE handled
                /\ responses' = Del(responses, cid)
                /\ stack' = SetTop(t, [f EXCEPT !.wait = FALSE, !.start = clock,
                                                !.now = clock, !.id = cid])
                /\ UNCHANGED <<ret, exc, clock>>
    /\ UNCHANGED <<ws, ensime, ensime_server, call_id, number_try_connection,
                   running, connected, poller, ops, warnings,
                   sent, opened, stops, faults, recvs, calls,
                   overlapped, issued, torn>>

\* lines 243-244: the entry is nil: log it and go round the loop again,
\* without sleeping and without reading the clock.  `nilled` is the parity
\* of the number of lines logged.
GetResponseNil(t) ==
    /\ In(t, "get_response", "loop")
    /\ LoopCond(Top(t))
    /\ Top(t).id \in DOMAIN responses
    /\ ~IsResult(responses[Top(t).id])
    /\ stack' = SetTop(t, [Top(t) EXCEPT !.nilled = ~Top(t).nilled])
    /\ UNCHANGED <<ws, ensime, ensime_server, call_id, responses, number_try_connection,
                   running, connected, poller, ret, exc, ops, clock, warnings, handled,
                   sent, opened, stops, faults, recvs, calls,
                   overlapped, issued, torn>>

\* lines 246-249: the loop is left: False when the timeout has run out, else True
GetResponseReturn(t) ==
    /\ In(t, "get_response", "loop")
    /\ ~LoopCond(Top(t))
    /\ ret' = [ret EXCEPT ![t] = RetBool(~TimedOut(Top(t)))]
    /\ stack' = Pop(t)
    /\ clock' = ClockAfter(t)
    /\ UNCHANGED <<ws, ensime, ensime_server, call_id, responses, number_try_connection,
                   running, connected, poller, exc, ops, warnings, handled,
                   sent, opened, stops, faults, recvs, calls,
                   overlapped, issued, torn>>

\* a thread busy-looping on a nil entry
Spinning(t) ==
    /\ In(t, "get_response", "loop")
    /\ LoopCond(Top(t))
    /\ Top(t).id \in DOMAIN responses
    /\ ~IsResult(responses[Top(t).id])

Sleeping(t) == In(t, "get_response", "sleep")


\* time passes.  A sleeping thread wakes when its sleep is over, a thread that
\* computes does so in no time, and a clock nobody reads is not modelled.
Computing(t) ==
    /\ ~Idle(t)
    /\ ~Sleeping(t)
    /\ ~Spinning(t)
    /\ ~In(t, "connect_when_ready", "wait")

Tick ==
    /\ \A t \in Threads : ~Computing(t)
    /\ \A t \in Threads : Sleeping(t) => clock < Top(t).wake
    /\ \E t \in Threads :
          \/ Sleeping(t)
          \/ Spinning(t) /\ clock < Top(t).start + Top(t).tmo + MaxSpin
    /\ clock' = clock + 1
    /\ UNCHANGED <<ws, ensime, ensime_server, call_id, responses, number_try_connection,
                   running, connected, poller, stack, ret, exc, ops, warnings, handled,
                   sent, opened, stops, faults, recvs, calls,
                   overlapped, issued, torn>>

----------------------------------------------------------------------------
\* queue_poll (lines 65-93), the receiver loop

\* line 72-73: the loop goes on and there is a websocket: block in ws.recv()
PollEnter ==
    /\ poller = "loop"
    /\ running
    /\ ws # "None"
    /\ poller' = "recv"
    /\ UNCHANGED <<ws, ensime, ensime_server, call_id, responses, number_try_connection,
                   running, connected, stack, ret, exc, ops, clock, warnings, handled,
                   sent, opened, stops, faults, recvs, calls,
                   overlapped, issued, torn>>

\* line 72: self.running is false, the loop ends
PollStop ==
    /\ poller = "loop"
    /\ ~running
    /\ poller' = "stopped"
    /\ UNCHANGED <<ws, ensime, ensime_server, call_id, responses, number_try_connection,
                   running, connected, stack, ret, exc, ops, clock, warnings, handled,
                   sent, opened, stops, faults, recvs, calls,
                   overlapped, issued, torn>>

\* a result e is stored for its call id: the calls of get_response that wait
\* for it count it (`seen` is the number of results stored for the awaited id
\* since the call began, one that was there when it began included, `got` the
\* payload of the last of them)
Noticed(e) ==
    [t \in Threads |->
        IF ~Idle(t) /\ Top(t).proc = "get_response" /\ Top(t).id = e.callId
        THEN <<[Top(t) EXCEPT !.seen = IF @ < MaxCount THEN @ + 1 ELSE @,
                              !.got = e.payload]>> \o Tail(stack[t])
        ELSE stack[t]]

\* the test of line 91 negated
ForwardedNot(p) == p # "data"

\* line 91, `if _json["payload"]`: the payload is there and it is not empty
Forwarded(p) == p = "data"

\* lines 82-92: a message arrives.  With a callId it is stored in the
\* registry; without one its payload goes to the handlers, and _json["payload"]
\* of a message without payload raises KeyError, which ends the thread.
PollRecv(e) ==
    /\ poller = "recv"
    /\ recvs < MaxRecv
    /\ recvs' = recvs + 1
    /\ IF e.callId # NoId
       THEN /\ responses' = Put(responses, e.callId, e)
            /\ stack' = Noticed(e)
            /\ poller' = "loop"
            /\ UNCHANGED handled
       ELSE /\ poller' = IF e.payload = "absent" THEN "dead" ELSE "loop"
            /\ handled' = IF Forwarded(e.payload)
                             THEN Bump(handled, NoId)
                             ELSE handled
            /\ UNCHANGED <<responses, stack>>
    /\ UNCHANGED <<ws, ensime, ensime_server, call_id, number_try_connection,
                   running, connected, ret, exc, ops, clock, warnings,
                   sent, opened, stops, faults, calls,
                   overlapped, issued, torn>>

\* lines 74-81: ws.recv() raises WebSocketException; log_and_close shuts the
\* server down and warns when the client is connected, and does nothing otherwise
PollRecvError ==
    /\ poller = "recv"
    /\ faults < MaxFaults
    /\ faults' = faults + 1
    /\ poller' = "loop"
    /\ IF connected
       THEN ShutdownEffect /\ DisplayWsWarning("recv_error")
       ELSE UNCHANGED <<connected, stops, ensime, warnings>>
    /\ UNCHANGED <<ws, ensime_server, call_id, responses, number_try_connection,
                   running, stack, ret, exc, ops, clock, handled,
                   sent, opened, recvs, calls,
                   overlapped, issued, torn>>


----------------------------------------------------------------------------
\* send_request (lines 208-218)

RequestActive == \E u \in Threads : \E i \in DOMAIN stack[u] : stack[u][i].proc = "send_request"

\* a call of send_request begins: it is the k-th of the session
RequestFrame == [Frame("send_request", "build") EXCEPT !.k = calls + 1]

BeginRequest ==
    /\ calls' = calls + 1
    /\ overlapped' = (overlapped \/ RequestActive)

\* lines 212-214: build the message with the current call id and hand it to send
SendRequestBuild(t) ==
    /\ In(t, "send_request", "build")
    /\ stack' = Push(t, [Top(t) EXCEPT !.pc = "read", !.id = call_id],
                        [Frame("send", "enter") EXCEPT !.id = call_id])
    /\ UNCHANGED <<ws, ensime, ensime_server, call_id, responses, number_try_connection,
                   running, connected, poller, ret, exc, ops, clock, warnings, handled,
                   sent, opened, stops, faults, recvs, calls,
                   overlapped, issued, torn>>

\* line 216: call_id = self.call_id
SendRequestRead(t) ==
    /\ In(t, "send_request", "read")
    /\ stack' = SetTop(t, [Top(t) EXCEPT !.pc = "load", !.tmp = call_id])
    /\ UNCHANGED <<ws, ensime, ensime_server, call_id, responses, number_try_connection,
                   running, connected, poller, ret, exc, ops, clock, warnings, handled,
                   sent, opened, stops, faults, recvs, calls,
                   overlapped, issued, torn>>

\* line 217, self.call_id += 1: the read of the attribute
SendRequestLoad(t) ==
    /\ In(t, "send_request", "load")
    /\ stack' = SetTop(t, [Top(t) EXCEPT !.pc = "store", !.ld = call_id])
    /\ UNCHANGED <<ws, ensime, ensime_server, call_id, responses, number_try_connection,
                   running, connected, poller, ret, exc, ops, clock, warnings, handled,
                   sent, opened, stops, faults, recvs, calls,
                   overlapped, issued, torn>>

\* line 217, the write of the attribute, and line 218: return call_id
SendRequestStore(t) ==
    /\ In(t, "send_request", "store")
    /\ call_id' = Top(t).ld + 1
    /\ ret' = [ret EXCEPT ![t] = RetInt(Top(t).tmp)]
    /\ issued' = Bump(issued, Top(t).tmp)
    /\ stack' = Pop(t)
    /\ UNCHANGED <<ws, ensime, ensime_server, responses, number_try_connection,
                   running, connected, poller, exc, ops, clock, warnings, handled,
                   sent, opened, stops, faults, recvs, calls,
                   overlapped, torn>>

----------------------------------------------------------------------------
\* send (lines 143-155)

\* a message put on the websocket, with the value self.connected had then
Transmit(f) == sent \cup {[callId |-> f.id, connected |-> connected]}

\* the test of line 152 left out
MaySendAlways == TRUE

\* line 152: the test that lets send use the websocket
MaySend == ws # "None"

\* line 152: nothing to send on
SendNoop(t) ==
    /\ In(t, "send", "enter")
    /\ ~MaySend
    /\ stack' = Pop(t)
    /\ UNCHANGED <<ws, ensime, ensime_server, call_id, responses, number_try_connection,
                   running, connected, poller, ret, exc, ops, clock, warnings, handled,
                   sent, opened, stops, faults, recvs, calls,
                   overlapped, issued, torn>>

\* lines 153-155: self.ws.send succeeds
SendOk(t) ==
    /\ In(t, "send", "enter")
    /\ MaySend
    /\ sent' = Transmit(Top(t))
    /\ stack' = Pop(t)
    /\ UNCHANGED <<ws, ensime, ensime_server, call_id, responses, number_try_connection,
                   running, connected, poller, ret, exc, ops, clock, warnings, handled,
                   opened, stops, faults, recvs, calls,
                   overlapped, issued, torn>>

\* lines 153-155, 145-147: self.ws.send raises WebSocketException, the handler
\* reconnect runs and calls connect_ensime_server
SendFail(t) ==
    /\ In(t, "send", "enter")
    /\ MaySend
    /\ faults < MaxFaults
    /\ faults' = faults + 1
    /\ stack' = Push(t, [Top(t) EXCEPT !.pc = "resend"], Frame("connect_ensime_server", "guard"))
    /\ UNCHANGED <<ws, ensime, ensime_server, call_id, responses, number_try_connection,
                   running, connected, poller, ret, exc, ops, clock, warnings, handled,
                   sent, opened, stops, recvs, calls,
                   overlapped, issued, torn>>

\* lines 148-149: the resend succeeds (self.ws is never reset to None, so
\* `if self.ws` holds whenever this line is reached)
SendResendOk(t) ==
    /\ In(t, "send", "resend")
    /\ ws # "None"
    /\ sent' = Transmit(Top(t))
    /\ stack' = Pop(t)
    /\ UNCHANGED <<ws, ensime, ensime_server, call_id, responses, number_try_connection,
                   running, connected, poller, ret, exc, ops, clock, warnings, handled,
                   opened, stops, faults, recvs, calls,
                   overlapped, issued, torn>>

\* `catch` comes from util (line 11), which is not part of this file: it
\* catches a class of transport failure at a call site and runs a recovery
\* action.  What the recovery action itself raises is not raised at that
\* call site, and leaves the `with` block.
CaughtInHandler == FALSE

\* lines 148-149: the resend raises WebSocketException, inside the handler
SendResendFail(t) ==
    /\ In(t, "send", "resend")
    /\ ws # "None"
    /\ faults < MaxFaults
    /\ faults' = faults + 1
    /\ IF CaughtInHandler
       THEN /\ stack' = Pop(t)
            /\ UNCHANGED exc
       ELSE Raise(t, "WebSocketException")
    /\ UNCHANGED <<ws, ensime, ensime_server, call_id, responses, number_try_connection,
                   running, connected, poller, ret, ops, clock, warnings, handled,
                   sent, opened, stops, recvs, calls,
                   overlapped, issued, torn>>


----------------------------------------------------------------------------
\* connect_ensime_server (lines 157-189)

\* line 170: the guard of a connection attempt
MayConnect == running /\ number_try_connection # 0

\* lines 163-168: disable_completely
DisableCompletely(cause) == ShutdownEffect /\ DisplayWsWarning(cause)

\* lines 170-174: the guard holds; the uri is built from the server's port
\* the first time (self.ensime.http_port() of no server raises AttributeError)
ConnectGuardPass(t) ==
    /\ In(t, "connect_ensime_server", "guard")
    /\ MayConnect
    /\ IF ensime_server = "None" /\ ensime = "None"
       THEN /\ Raise(t, "AttributeError")
            /\ UNCHANGED ensime_server
       ELSE /\ ensime_server' = "uri"
            /\ stack' = SetTop(t, [Top(t) EXCEPT !.pc = "create"])
            /\ UNCHANGED <<ret, exc>>
    /\ UNCHANGED <<ws, ensime, call_id, responses, number_try_connection,
                   running, connected, poller, ops, clock, warnings, handled,
                   sent, opened, stops, faults, recvs, calls,
                   overlapped, issued, torn>>

\* lines 186-189: the guard fails: disable_completely(None), return False
ConnectGuardFail(t) ==
    /\ In(t, "connect_ensime_server", "guard")
    /\ ~MayConnect
    /\ DisableCompletely("guard")
    /\ ret' = [ret EXCEPT ![t] = RetBool(FALSE)]
    /\ stack' = Pop(t)
    /\ UNCHANGED <<ws, ensime_server, call_id, responses, number_try_connection,
                   running, poller, exc, ops, clock, handled,
                   sent, opened, faults, recvs, calls,
                   overlapped, issued, torn>>

\* line 181: websocket.create_connection succeeds
ConnectCreateOk(t) ==
    /\ In(t, "connect_ensime_server", "create")
    /\ ws' = "conn"
    /\ opened' = IF opened < MaxCount THEN opened + 1 ELSE opened
    /\ stack' = SetTop(t, [Top(t) EXCEPT !.pc = "load"])
    /\ UNCHANGED <<ensime, ensime_server, call_id, responses, number_try_connection,
                   running, connected, poller, ret, exc, ops, clock, warnings, handled,
                   sent, stops, faults, recvs, calls,
                   overlapped, issued, torn>>

\* lines 175, 181: websocket.create_connection raises WebSocketException:
\* disable_completely(e); the method goes on after the `with` block
ConnectCreateFail(t) ==
    /\ In(t, "connect_ensime_server", "create")
    /\ faults < MaxFaults
    /\ faults' = faults + 1
    /\ DisableCompletely("connect_error")
    /\ stack' = SetTop(t, [Top(t) EXCEPT !.pc = "load"])
    /\ UNCHANGED <<ws, ensime_server, call_id, responses, number_try_connection,
                   running, poller, ret, exc, ops, clock, handled,
                   sent, opened, recvs, calls,
                   overlapped, issued, torn>>

\* line 182, self.number_try_connection -= 1: the read of the attribute
ConnectDecrLoad(t) ==
    /\ In(t, "connect_ensime_server", "load")
    /\ stack' = SetTop(t, [Top(t) EXCEPT !.pc = "store", !.ld = number_try_connection])
    /\ UNCHANGED <<ws, ensime, ensime_server, call_id, responses, number_try_connection,
                   running, connected, poller, ret, exc, ops, clock, warnings, handled,
                   sent, opened, stops, faults, recvs, calls,
                   overlapped, issued, torn>>

\* line 182: the write of the attribute
ConnectDecrStore(t) ==
    /\ In(t, "connect_ensime_server", "store")
    /\ number_try_connection' = Top(t).ld - 1
    /\ stack' = SetTop(t, [Top(t) EXCEPT !.pc = "handshake"])
    /\ UNCHANGED <<ws, ensime, ensime_server, call_id, responses,
                   running, connected, poller, ret, exc, ops, clock, warnings, handled,
                   sent, opened, stops, faults, recvs, calls,
                   overlapped, issued, torn>>

\* line 183: ConnectionInfoRequest().run_in(self.env) sends the handshake request
ConnectHandshake(t) ==
    /\ In(t, "connect_ensime_server", "handshake")
    /\ BeginRequest
    /\ stack' = Push(t, [Top(t) EXCEPT !.pc = "await"], RequestFrame)
    /\ UNCHANGED <<ws, ensime, ensime_server, call_id, responses, number_try_connection,
                   running, connected, poller, ret, exc, ops, clock, warnings, handled,
                   sent, opened, stops, faults, recvs, issued, torn>>

\* line 184: get_response(call_id, timeout=30)
ConnectAwait(t) ==
    /\ In(t, "connect_ensime_server", "await")
    /\ stack' = Push(t, [Top(t) EXCEPT !.pc = "return"],
                        GetFrame(ret[t].int, HandshakeTimeout, TRUE))
    /\ UNCHANGED <<ws, ensime, ensime_server, call_id, responses, number_try_connection,
                   running, connected, poller, ret, exc, ops, clock, warnings, handled,
                   sent, opened, stops, faults, recvs, calls,
                   overlapped, issued, torn>>

\* line 185: return received_response
ConnectReturn(t) ==
    /\ In(t, "connect_ensime_server", "return")
    /\ stack' = Pop(t)
    /\ UNCHANGED <<ws, ensime, ensime_server, call_id, responses, number_try_connection,
                   running, connected, poller, ret, exc, ops, clock, warnings, handled,
                   sent, opened, stops, faults, recvs, calls,
                   overlapped, issued, torn>>

----------------------------------------------------------------------------
\* connect_when_ready (lines 95-114), run by the thread setup() starts

\* line 101: a websocket exists already ("Already connected.")
CwrAlready(t) ==
    /\ In(t, "connect_when_ready", "enter")
    /\ ws # "None"
    /\ stack' = Pop(t)
    /\ UNCHANGED <<ws, ensime, ensime_server, call_id, responses, number_try_connection,
                   running, connected, poller, ret, exc, ops, clock, warnings, handled,
                   sent, opened, stops, faults, recvs, calls,
                   overlapped, issued, torn>>

\* line 101: no websocket yet
CwrEnter(t) ==
    /\ In(t, "connect_when_ready", "enter")
    /\ ws = "None"
    /\ stack' = SetTop(t, [Top(t) EXCEPT !.pc = "wait"])
    /\ UNCHANGED <<ws, ensime, ensime_server, call_id, responses, number_try_connection,
                   running, connected, poller, ret, exc, ops, clock, warnings, handled,
                   sent, opened, stops, faults, recvs, calls,
                   overlapped, issued, torn>>

\* lines 102-104: the server is not ready: sleep a second, timeout -= 1
CwrSleep(t) ==
    /\ In(t, "connect_when_ready", "wait")
    /\ ensime # "ready"
    /\ Top(t).tmo > 0
    /\ stack' = SetTop(t, [Top(t) EXCEPT !.tmo = Top(t).tmo - 1])
    /\ UNCHANGED <<ws, ensime, ensime_server, call_id, responses, number_try_connection,
                   running, connected, poller, ret, exc, ops, clock, warnings, handled,
                   sent, opened, stops, faults, recvs, calls,
                   overlapped, issued, torn>>

\* lines 105-106: the server is ready: call connect_ensime_server
CwrConnect(t) ==
    /\ In(t, "connect_when_ready", "wait")
    /\ ensime = "ready"
    /\ stack' = Push(t, [Top(t) EXCEPT !.pc = "assign"], Frame("connect_ensime_server", "guard"))
    /\ UNCHANGED <<ws, ensime, ensime_server, call_id, responses, number_try_connection,
                   running, connected, poller, ret, exc, ops, clock, warnings, handled,
                   sent, opened, stops, faults, recvs, calls,
                   overlapped, issued, torn>>

\* lines 102, 105: the wait ran out and the server is still not ready
CwrGiveUp(t) ==
    /\ In(t, "connect_when_ready", "wait")
    /\ ensime # "ready"
    /\ Top(t).tmo = 0
    /\ stack' = SetTop(t, [Top(t) EXCEPT !.pc = "finish"])
    /\ UNCHANGED <<ws, ensime, ensime_server, call_id, responses, number_try_connection,
                   running, connected, poller, ret, exc, ops, clock, warnings, handled,
                   sent, opened, stops, faults, recvs, calls,
                   overlapped, issued, torn>>

\* line 106: self.connected = <what connect_ensime_server returned>
CwrAssign(t) ==
    /\ In(t, "connect_when_ready", "assign")
    /\ connected' = ret[t].bool
    /\ stack' = SetTop(t, [Top(t) EXCEPT !.pc = "finish"])
    /\ UNCHANGED <<ws, ensime, ensime_server, call_id, responses, number_try_connection,
                   running, poller, ret, exc, ops, clock, warnings, handled,
                   sent, opened, stops, faults, recvs, calls,
                   overlapped, issued, torn>>

\* lines 108-112: connected: log; else fallback(), which is shutdown_server
CwrFinish(t) ==
    /\ In(t, "connect_when_ready", "finish")
    /\ IF connected
       THEN UNCHANGED <<connected, stops, ensime>>
       ELSE ShutdownEffect
    /\ stack' = Pop(t)
    /\ UNCHANGED <<ws, ensime_server, call_id, responses, number_try_connection,
                   running, poller, ret, exc, ops, clock, warnings, handled,
                   sent, opened, faults, recvs, calls,
                   overlapped, issued, torn>>

\* the launched server process writes its http port: is_ready() becomes true
EnsimeReady ==
    /\ ensime = "starting"
    /\ ensime' = "ready"
    /\ UNCHANGED <<ws, ensime_server, call_id, responses, number_try_connection,
                   running, connected, poller, stack, ret, exc, ops, clock, warnings,
                   handled, sent, opened, stops, faults, recvs, calls,
                   overlapped, issued, torn>>


----------------------------------------------------------------------------
\* The calls the foreground threads make into the client.

Called(t) == ops' = ops + 1
MayCall(t) == t \in Callers /\ Idle(t) /\ ops < MaxOps

\* setup (lines 116-136): launch the server unless there is one, set
\* self.running, start the connect_when_ready thread, return self.running.
\* launched is the outcome of self.launcher.launch(): FALSE is a LaunchError.
CallSetup(t, launched) ==
    /\ MayCall(t)
    /\ Called(t)
    /\ LET e == IF ensime # "None" THEN ensime
                ELSE IF launched THEN "starting" ELSE "None"
           up == e # "None"
       IN  /\ ensime' = e
           /\ running' = up
           /\ ret' = [ret EXCEPT ![t] = RetBool(up)]
           /\ IF up
              THEN \E b \in Background :
                      /\ Idle(b)
                      /\ stack' = [stack EXCEPT ![b] =
                            <<[Frame("connect_when_ready", "enter")
                                 EXCEPT !.tmo = ConnectionTimeout]>>]
              ELSE UNCHANGED stack
    /\ exc' = [exc EXCEPT ![t] = "None"]
    /\ UNCHANGED <<ws, ensime_server, call_id, responses, number_try_connection,
                   connected, poller, clock, warnings, handled,
                   sent, opened, stops, faults, recvs, calls,
                   overlapped, issued, torn>>

\* teardown (lines 201-206)
CallTeardown(t) ==
    /\ MayCall(t)
    /\ Called(t)
    /\ running' = FALSE
    /\ ShutdownEffect
    /\ torn' = TRUE
    /\ exc' = [exc EXCEPT ![t] = "None"]
    /\ UNCHANGED <<ws, ensime_server, call_id, responses, number_try_connection,
                   poller, stack, ret, clock, warnings, handled,
                   sent, opened, faults, recvs, calls,
                   overlapped, issued>>

\* shutdown_server (lines 191-199)
CallShutdown(t) ==
    /\ MayCall(t)
    /\ Called(t)
    /\ ShutdownEffect
    /\ exc' = [exc EXCEPT ![t] = "None"]
    /\ UNCHANGED <<ws, ensime_server, call_id, responses, number_try_connection,
                   running, poller, stack, ret, clock, warnings, handled,
                   sent, opened, faults, recvs, calls,
                   overlapped, issued, torn>>

\* a direct call of connect_ensime_server
CallConnect(t) ==
    /\ MayCall(t)
    /\ Called(t)
    /\ stack' = [stack EXCEPT ![t] = <<Frame("connect_ensime_server", "guard")>>]
    /\ exc' = [exc EXCEPT ![t] = "None"]
    /\ UNCHANGED <<ws, ensime, ensime_server, call_id, responses, number_try_connection,
                   running, connected, poller, ret, clock, warnings, handled,
                   sent, opened, stops, faults, recvs, calls,
                   overlapped, issued, torn>>

\* a call of send_request
CallSendRequest(t) ==
    /\ MayCall(t)
    /\ Called(t)
    /\ BeginRequest
    /\ stack' = [stack EXCEPT ![t] = <<RequestFrame>>]
    /\ exc' = [exc EXCEPT ![t] = "None"]
    /\ UNCHANGED <<ws, ensime, ensime_server, call_id, responses, number_try_connection,
                   running, connected, poller, ret, clock, warnings, handled,
                   sent, opened, stops, faults, recvs, issued, torn>>

\* a call of get_response(id, timeout, should_wait)
CallGetResponse(t, id, tmo, sw) ==
    /\ MayCall(t)
    /\ Called(t)
    /\ stack' = [stack EXCEPT ![t] = <<GetFrame(id, tmo, sw)>>]
    /\ exc' = [exc EXCEPT ![t] = "None"]
    /\ UNCHANGED <<ws, ensime, ensime_server, call_id, responses, number_try_connection,
                   running, connected, poller, ret, clock, warnings, handled,
                   sent, opened, stops, faults, recvs, calls,
                   overlapped, issued, torn>>

----------------------------------------------------------------------------
\* The next step of thread t, whatever method it is in.
Step(t) ==
    \/ GetResponseSleep(t)
    \/ GetResponseWake(t)
    \/ GetResponseTake(t)
    \/ GetResponseNil(t)
    \/ GetResponseReturn(t)
    \/ SendRequestBuild(t)
    \/ SendRequestRead(t)
    \/ SendRequestLoad(t)
    \/ SendRequestStore(t)
    \/ SendNoop(t)
    \/ SendOk(t)
    \/ SendFail(t)
    \/ SendResendOk(t)
    \/ SendResendFail(t)
    \/ ConnectGuardPass(t)
    \/ ConnectGuardFail(t)
    \/ ConnectCreateOk(t)
    \/ ConnectCreateFail(t)
    \/ ConnectDecrLoad(t)
    \/ ConnectDecrStore(t)
    \/ ConnectHandshake(t)
    \/ ConnectAwait(t)
    \/ ConnectReturn(t)
    \/ CwrAlready(t)
    \/ CwrEnter(t)
    \/ CwrSleep(t)
    \/ CwrConnect(t)
    \/ CwrGiveUp(t)
    \/ CwrAssign(t)
    \/ CwrFinish(t)

Poll ==
    \/ PollEnter
    \/ PollStop
    \/ \E e \in Envelopes : PollRecv(e)
    \/ PollRecvError

Call(t) ==
    \/ \E launched \in BOOLEAN : CallSetup(t, launched)
    \/ CallTeardown(t)
    \/ CallShutdown(t)
    \/ CallConnect(t)
    \/ CallSendRequest(t)
    \/ \E id \in 1..MaxId, tmo \in 0..MaxTimeout, sw \in BOOLEAN : CallGetResponse(t, id, tmo, sw)

Next ==
    \/ \E t \in Threads : Step(t)
    \/ \E t \in Callers : Call(t)
    \/ Poll
    \/ EnsimeReady
    \/ Tick

Spec == Init /\ [][Next]_vars

----------------------------------------------------------------------------
\* Scenarios.  Each restricts Spec to some calls and some behaviours of the
\* environment; the actions are those of Spec, and an action left out of a
\* scenario is either never enabled in it or an input that the scenario does
\* not give (a call nobody makes, a message or an error that does not come).

\* The client once setup() has run and the handshake has succeeded: the
\* server was launched and is ready, the websocket is open, the only
\* connection attempt is used, the handshake request had call id 1 and its
\* response was taken by get_response.  The counters that bound the model
\* (ops, faults, recvs) count from here.
InitConnected ==
    /\ ws = "conn"
    /\ ensime = "ready"
    /\ ensime_server = "uri"
    /\ call_id = FirstCallId + 1
    /\ responses = <<>>
    /\ number_try_connection = InitialTries - 1
    /\ running = TRUE
    /\ connected = TRUE
    /\ poller = "loop"
    /\ stack = [t \in Threads |-> <<>>]
    /\ ret = [t \in Threads |-> IF t = "f2" THEN RetInt(0) ELSE RetBool(TRUE)]
    /\ exc = [t \in Threads |-> "None"]
    /\ ops = 0
    /\ clock = 0
    /\ warnings = <<>>
    /\ handled = (FirstCallId :> 1)
    /\ sent = {[callId |-> FirstCallId, connected |-> FALSE]}
    /\ opened = 1
    /\ stops = 0
    /\ faults = 0
    /\ recvs = 0
    /\ calls = 1
    /\ overlapped = FALSE
    /\ issued = (FirstCallId :> 1)
    /\ torn = FALSE

\* the steps of get_response
GetStep(t) ==
    \/ GetResponseSleep(t)
    \/ GetResponseWake(t)
    \/ GetResponseTake(t)
    \/ GetResponseReturn(t)

\* the foreground thread that waits for responses
Waiters == {"f1"}

\* Waiting for responses on a connected session: a caller calls
\* get_response, the server sends any envelope, the transport may fail.
NextAwait ==
    \/ \E t \in Waiters : GetStep(t)
    \/ \E t \in Waiters : \E id \in 1..MaxId, tmo \in 0..MaxTimeout, sw \in BOOLEAN :
            CallGetResponse(t, id, tmo, sw)
    \/ PollEnter
    \/ \E e \in Envelopes : PollRecv(e)
    \/ PollRecvError
    \/ Tick

SpecAwait == InitConnected /\ [][NextAwait]_vars

\* A nil value is put in the registry for call id id.  Nothing in client.py
\* does this (queue_poll only stores envelopes that carry a callId); the
\* value comes from outside the class.
StoreNil(id) ==
    /\ IF id \in DOMAIN responses THEN IsResult(responses[id]) ELSE TRUE
    /\ responses' = Put(responses, id, Nil)
    /\ UNCHANGED <<ws, ensime, ensime_server, call_id, number_try_connection,
                   running, connected, poller, stack, ret, exc, ops, clock, warnings,
                   handled, sent, opened, stops, faults, recvs, calls,
                   overlapped, issued, torn>>

\* Waiting for responses when nil values are stored as well.
NextNil ==
    \/ \E t \in Waiters : GetStep(t) \/ GetResponseNil(t)
    \/ \E t \in Waiters : \E id \in 1..MaxId, tmo \in 0..MaxTimeout, sw \in BOOLEAN :
            CallGetResponse(t, id, tmo, sw)
    \/ \E id \in 1..MaxId : StoreNil(id)
    \/ PollEnter
    \/ \E e \in Envelopes : PollRecv(e)
    \/ Tick

SpecNil == InitConnected /\ [][NextNil]_vars

\* Every thread that can run does run, and time passes: the threads are
\* scheduled by the interpreter, which starves none of them.
FairNil ==
    /\ SpecNil
    /\ \A t \in Waiters : WF_vars(GetStep(t) \/ GetResponseNil(t))
    /\ WF_vars(Tick)

\* Sending requests, on a client that was never set up (no websocket) and
\* on a connected one; the server is shut down or the transport fails at
\* any moment, the server sends nothing.
NextReq ==
    \/ \E t \in Callers : CallSendRequest(t)
    \/ \E t \in Callers : CallShutdown(t)
    \/ \E t \in Callers :
          \/ SendRequestBuild(t)
          \/ SendRequestRead(t)
          \/ SendRequestLoad(t)
          \/ SendRequestStore(t)
          \/ SendNoop(t)
          \/ SendOk(t)
          \/ SendFail(t)
          \/ SendResendOk(t)
          \/ SendResendFail(t)
          \/ ConnectGuardFail(t)
    \/ PollEnter
    \/ PollRecvError

SpecReq == (Init \/ InitConnected) /\ [][NextReq]_vars

\* the server answers requests: envelopes with a call id and a payload
Replies == {Envelope(c, "data") : c \in 1..MaxId}

\* Setting up, connecting and shutting down, from construction on: one
\* caller, the connect_when_ready thread and the receiver loop.  Opening the
\* connection and receiving may fail; sending does not.
NextConn ==
    \/ \E launched \in BOOLEAN : CallSetup("f1", launched)
    \/ CallConnect("f1")
    \/ CallTeardown("f1")
    \/ CallShutdown("f1")
    \/ \E t \in {"f1"} \cup Background :
          \/ GetStep(t)
          \/ SendRequestBuild(t)
          \/ SendRequestRead(t)
          \/ SendRequestLoad(t)
          \/ SendRequestStore(t)
          \/ SendNoop(t)
          \/ SendOk(t)
          \/ ConnectGuardPass(t)
          \/ ConnectGuardFail(t)
          \/ ConnectCreateOk(t)
          \/ ConnectCreateFail(t)
          \/ ConnectDecrLoad(t)
          \/ ConnectDecrStore(t)
          \/ ConnectHandshake(t)
          \/ ConnectAwait(t)
          \/ ConnectReturn(t)
          \/ CwrAlready(t)
          \/ CwrEnter(t)
          \/ CwrSleep(t)
          \/ CwrConnect(t)
          \/ CwrGiveUp(t)
          \/ CwrAssign(t)
          \/ CwrFinish(t)
    \/ PollEnter
    \/ PollStop
    \/ \E e \in Replies : PollRecv(e)
    \/ PollRecvError
    \/ EnsimeReady
    \/ Tick

SpecConn == Init /\ [][NextConn]_vars

----------------------------------------------------------------------------
\* Properties.

\* C1: when a result for call id N has been stored in the registry (once,
\* before or during the call) and get_response(N, timeout > 0), called with
\* should_wait, returns True, the registry has no entry for N when the call
\* returns.
C1_ConsumedOnTrue ==
    [][\A t \in Waiters :
          (GetResponseReturn(t) /\ Top(t).sw /\ Top(t).tmo > 0 /\ Top(t).seen = 1
              /\ ~TimedOut(Top(t)))
             => Top(t).id \notin DOMAIN responses']_vars

\* C4: get_response(id, timeout > 0, should_wait) returns True if and only
\* if a result for the awaited id was in the registry at some moment of the
\* call, whatever should_wait is.
C4_TrueIffResponse ==
    [][\A t \in Waiters :
          (GetResponseReturn(t) /\ Top(t).tmo > 0)
             => (~TimedOut(Top(t)) <=> Top(t).seen > 0)]_vars

\* C5: every call of get_response ends, nil values in the registry or not.
C5_AlwaysTerminates == \A t \in Waiters : (~Idle(t)) ~> Idle(t)

\* C6: a call get_response(id, T) with should_wait, for an id no result is
\* stored for, changes nothing in the registry and returns False, no sooner
\* than T after it began and less than one polling interval later than that.
C6_TimeoutLeavesRegistry ==
    [][\A t \in Waiters :
          (GetStep(t) /\ Top(t).sw /\ Top(t).seen = 0)
             => /\ responses' = responses
                /\ GetResponseReturn(t)
                      => /\ ret'[t] = RetBool(FALSE)
                         /\ clock - Top(t).at >= Top(t).tmo
                         /\ clock - Top(t).at < Top(t).tmo + PollInterval]_vars

\* a call that has waited past a timeout that is no multiple of the polling
\* interval is about to return False, while the registry holds other entries
C6_Witness ==
    \E t \in Waiters :
        /\ In(t, "get_response", "loop")
        /\ Top(t).sw
        /\ Top(t).seen = 0
        /\ Top(t).wait
        /\ Top(t).tmo > 0
        /\ Top(t).now - Top(t).start > Top(t).tmo
        /\ DOMAIN responses # {}

\* the call of send_request thread t is in
Request(t) == stack[t][Len(stack[t])]

C3_IdsAssignedOnce == \A id \in DOMAIN issued : issued[id] <= 1

C10_NoSendWhenDisconnected == [][sent' # sent => connected]_vars

\* C10 as amended: nothing is put on a websocket while self.ws is None.
C10_NoSendWithoutWebsocket == [][sent' # sent => ws # "None"]_vars

\* send was called without a websocket and has returned: nothing was sent
C10_Witness ==
    \E t \in Callers : In(t, "send_request", "read") /\ ws = "None" /\ sent = {}

\* C7: in a session whose only connection attempt raised a transport error,
\* one warning is shown, whatever is called afterwards.
C7_OneWarning ==
    (Count(warnings, "connect_error") = 1 /\ opened = 0)
       => Count(warnings, "connect_error") + Count(warnings, "guard")
             + Count(warnings, "recv_error") = 1

\* C8: the retry budget stays between 0 and its initial value, and no more
\* connections are opened than the initial budget allows.
C8_BudgetBounds ==
    /\ number_try_connection \in 0..InitialTries
    /\ opened <= InitialTries

\* the states of the receiver loop in which it goes on receiving
PollerAlive == poller \in {"loop", "recv"}

\* C11: the receiver loop ends only when self.running is false: no message
\* and no transport error ends it while self.running is true.
C11_LoopEndsOnlyWhenStopped ==
    [][(PollerAlive /\ ~PollerAlive') => ~running]_vars

\* C12: once teardown has returned, self.running and self.connected are
\* false for good.
C12_StoppedIsTerminal == torn => (~running /\ ~connected)

\* the fields of the client a message without callId has no business with
SessionFields == <<call_id, connected, running, number_try_connection, ws, ensime>>

\* C13: a message without callId and with a payload goes to the handlers
\* once, under no call id, and leaves the registry, the call-id counter,
\* connected, running and the retry budget as they are.
C13_UnsolicitedDispatchedOnce ==
    [][PollRecv(Envelope(NoId, "data"))
             => /\ Count(handled', NoId) = Count(handled, NoId) + 1
                /\ \A k \in 1..MaxId : Count(handled', k) = Count(handled, k)
                /\ responses' = responses
                /\ SessionFields' = SessionFields
                /\ PollerAlive']_vars

\* two messages without callId have arrived, each was handled once
C13_Witness ==
    /\ Count(handled, NoId) = 2
    /\ recvs = 2
    /\ PollerAlive

\* what shutdown_server leaves behind: not connected, no server running
ShutDown == ~connected /\ ensime \in {"None", "stopped"}

\* C14: a call of shutdown_server raises nothing, leaves the client not
\* connected and its server stopped, and does not touch self.running; called
\* in the state a call of it has left, it changes nothing.
C14_ShutdownIdempotent ==
    [][\A t \in Callers :
          CallShutdown(t)
             => /\ ShutDown'
                /\ running' = running
                /\ exc'[t] = "None"
                /\ ShutDown =>
                      <<ws, ensime, ensime_server, call_id, responses,
                        number_try_connection, running, connected, poller, stack>>'
                      = <<ws, ensime, ensime_server, call_id, responses,
                          number_try_connection, running, connected, poller, stack>>]_vars

\* shutdown_server was called twice in a row on a connected client
C14_Witness ==
    /\ stops = 2
    /\ ops = 2
    /\ faults = 0
    /\ calls = 1
    /\ ShutDown

\* C15: when one result with a payload was stored for the awaited id, before
\* or during the call, and get_response returns True, the payload went to the
\* handlers exactly once during the call.
C15_HandledOnceOnTrue ==
    [][\A t \in Waiters :
          (GetResponseReturn(t) /\ Top(t).sw /\ Top(t).tmo > 0 /\ Top(t).seen = 1
              /\ Top(t).got = "data" /\ ~TimedOut(Top(t)))
             => Count(handled', Top(t).id) = Top(t).h + 1]_vars

\* C16: get_response, finding for the awaited id an envelope without
\* payload, raises nothing, calls no handler, deletes the entry and leaves
\* the loop to return True.
C16_NoPayloadEndsWait ==
    [][\A t \in Waiters :
          (GetResponseTake(t) /\ responses[Top(t).id].payload = "absent")
             => /\ exc'[t] = "None"
                /\ handled' = handled
                /\ Top(t).id \notin DOMAIN responses'
                /\ stack'[t] # <<>>
                /\ ~LoopCond(Head(stack'[t]))
                /\ ~TimedOut(Head(stack'[t]))]_vars

\* C17: a transport error of ws.recv() while connected disconnects, stops the
\* server and shows one warning; while not connected it changes nothing but
\* the loop's position.  On a connection nothing reconnects, at most one such
\* warning is shown.
C17_RecvErrorWarnsOnce ==
    /\ [](Count(warnings, "recv_error") <= 1)
    /\ [][PollRecvError
            => IF connected
               THEN /\ ~connected'
                    /\ ensime' = "stopped"
                    /\ Count(warnings', "recv_error") = Count(warnings, "recv_error") + 1
                    /\ running' = running
               ELSE <<ws, ensime, ensime_server, call_id, responses,
                      number_try_connection, running, connected, stack,
                      warnings, stops, handled, sent>>'
                    = <<ws, ensime, ensime_server, call_id, responses,
                        number_try_connection, running, connected, stack,
                        warnings, stops, handled, sent>>]_vars

\* ws.recv() has failed twice, the first time on a connected client
C17_Witness ==
    /\ faults = 2
    /\ Count(warnings, "recv_error") = 1
    /\ ~connected
    /\ ensime = "stopped"
    /\ stops = 1

\* C18: send_request returns the call id it put in the message it sent.
C18_ReturnsSentId ==
    [][\A t \in Callers :
          SendRequestStore(t) => ret'[t] = RetInt(Top(t).id)]_vars

C20_PollerAliveWhileRunning == running => PollerAlive

====
